---------------------------- MODULE Spec2Model ----------------------------
(***************************************************************************)
(* Model of initialtest.py: a Keplerian orbit propagator (solve_kepler,    *)
(* get_position, draw_orbit) and the pygame frame loop that drives it.     *)
(*                                                                         *)
(* Python floats are modelled as decimal floating-point numbers            *)
(* [m |-> mantissa, x |-> exponent] standing for m * 10^x, with Digits     *)
(* significant digits: every arithmetic result is rounded to that many     *)
(* digits, as IEEE doubles round to 53 bits.  math.sin, math.cos,          *)
(* math.atan2 and math.sqrt are computed to an absolute accuracy of about  *)
(* 1e-8 by fixed-point series.                                             *)
(***************************************************************************)
EXTENDS Integers, Sequences, FiniteSets, TLC

-----------------------------------------------------------------------------
(* Integer helpers *)

Abs(n) == IF n < 0 THEN -n ELSE n

Sgn(n) == IF n < 0 THEN -1 ELSE IF n > 0 THEN 1 ELSE 0

Pow10(k) == <<1, 10, 100, 1000, 10000, 100000, 1000000, 10000000,
              100000000, 1000000000>>[k + 1]

\* q + 1 when the remainder r of a division by d rounds up (ties to even)
RoundUp(q, r, d) == IF 2 * r > d \/ (2 * r = d /\ q % 2 = 1) THEN q + 1 ELSE q

\* n / d for n >= 0, d > 0, rounded to nearest
RoundDivNat(n, d) == RoundUp(n \div d, n % d, d)

RoundDiv(n, d) == Sgn(n) * RoundDivNat(Abs(n), d)

\* n / d truncated toward zero, as int() truncates
TruncDiv(n, d) == Sgn(n) * (Abs(n) \div d)

-----------------------------------------------------------------------------
(* Decimal floating point: the model of a Python float *)

\* significant digits carried by a float
Digits == 8

\* 10^Digits, 10^(Digits - 1) and 10^(Digits / 2)
MantMax == 100000000

MantMin == 10000000

Limb == 10000

RECURSIVE Norm(_, _)
\* the float nearest to m * 10^x
Norm(m, x) ==
    IF m = 0 THEN [m |-> 0, x |-> 0]
    ELSE IF m >= MantMax \/ -m >= MantMax THEN Norm(RoundDiv(m, 10), x + 1)
    ELSE IF m < MantMin /\ -m < MantMin THEN Norm(m * 10, x - 1)
    ELSE [m |-> m, x |-> x]

F(m, x) == Norm(m, x)

FNeg(f) == [m |-> -f.m, x |-> f.x]

FAbs(f) == [m |-> Abs(f.m), x |-> f.x]

\* hi + lo for hi.x >= lo.x, d = hi.x - lo.x, with one guard digit
AddAligned(hi, lo, d) ==
    IF d > Digits + 1 THEN hi
    ELSE IF d = 0 THEN Norm(hi.m + lo.m, hi.x)
    ELSE Norm(hi.m * 10 + RoundDiv(lo.m, Pow10(d - 1)), hi.x - 1)

\* f + g, rounded
FAdd(f, g) ==
    IF f.m = 0 THEN g
    ELSE IF g.m = 0 THEN f
    ELSE IF f.x >= g.x THEN AddAligned(f, g, f.x - g.x)
    ELSE AddAligned(g, f, g.x - f.x)

FSub(f, g) == FAdd(f, FNeg(g))

\* s * (hi * Limb + y) * 10^(x + Digits / 2), rounded to Digits digits
MulPack(s, hi, y, x) ==
    IF hi + y \div Limb >= MantMin
    THEN Norm(s * (hi + RoundDivNat(y, Limb)), x + Digits)
    ELSE Norm(s * (hi * 10 + RoundDivNat(y, Limb \div 10)), x + Digits - 1)

\* the product of the mantissas a1 * Limb + a0 and b1 * Limb + b0
MulLimbs(s, a1, a0, b1, b0, x) ==
    MulPack(s, a1 * b1, a1 * b0 + a0 * b1 + (a0 * b0) \div Limb, x)

\* f * g, rounded
FMul(f, g) ==
    MulLimbs(Sgn(f.m) * Sgn(g.m), Abs(f.m) \div Limb, Abs(f.m) % Limb,
             Abs(g.m) \div Limb, Abs(g.m) % Limb, f.x + g.x)

RECURSIVE LongDiv(_, _, _, _)
\* k more quotient digits of r / d appended to q
LongDiv(q, r, d, k) ==
    IF k = 0 THEN (IF 2 * r >= d THEN q + 1 ELSE q)
    ELSE LongDiv(q * 10 + (r * 10) \div d, (r * 10) % d, d, k - 1)

\* a / b for mantissas a >= 0, b > 0, to Digits digits after the first
DivMant(a, b) == LongDiv(a \div b, a % b, b, Digits)

\* f / g, rounded; g is not zero
FDiv(f, g) ==
    Norm(Sgn(f.m) * Sgn(g.m) * DivMant(Abs(f.m), Abs(g.m)), f.x - g.x - Digits)

\* the sign of f - g
FCmp(f, g) == FSub(f, g).m

FLt(f, g) == FCmp(f, g) < 0

FLe(f, g) == FCmp(f, g) <= 0

FMax(f, g) == IF FLt(f, g) THEN g ELSE f

FMin(f, g) == IF FLt(g, f) THEN g ELSE f

\* int(f): truncation toward zero
FInt(f) ==
    IF f.x >= 0 THEN f.m * Pow10(f.x)
    ELSE IF -f.x > Digits THEN 0
    ELSE TruncDiv(f.m, Pow10(-f.x))

FromInt(n) == Norm(n, 0)

-----------------------------------------------------------------------------
(* math.sin, math.cos, math.atan2, math.sqrt: fixed-point series at scale  *)
(* FixOne, accurate to a few units of 1e-8                                 *)

FixOne == 100000000

\* pi, pi/2, pi/6 and 2*pi at scale FixOne
PI8 == 314159265

HALF_PI8 == 157079633

SIXTH_PI8 == 52359878

TWO_PI8 == 628318531

\* the fixed-point value nearest to the float f (|f| < 20)
ToFix(f) ==
    IF f.x >= -8 THEN f.m * Pow10(f.x + 8)
    ELSE IF f.x < -17 THEN 0
    ELSE RoundDiv(f.m, Pow10(-8 - f.x))

FromFix(v) == Norm(v, -8)

\* the product of a1 * Limb + a0 and b1 * Limb + b0 at scale FixOne
MulFixLimbs(a1, a0, b1, b0) ==
    a1 * b1 + (a1 * b0 + a0 * b1 + (a0 * b0) \div Limb + Limb \div 2) \div Limb

\* a * b at scale FixOne, rounded, for 0 <= a, b < 2.1 * FixOne
MulFixNat(a, b) == MulFixLimbs(a \div Limb, a % Limb, b \div Limb, b % Limb)

MulFix(a, b) == Sgn(a) * Sgn(b) * MulFixNat(Abs(a), Abs(b))

\* the Taylor series of sin x in Horner form, x2 = x * x
SinSeries(x, x2) ==
    MulFixNat(x, FixOne - MulFixNat(x2,
       FixOne - MulFixNat(x2,
          FixOne - MulFixNat(x2,
             FixOne - MulFixNat(x2,
                FixOne - x2 \div 110) \div 72) \div 42) \div 20) \div 6)

\* the Taylor series of cos x in Horner form, x2 = x * x
CosSeries(x2) ==
    FixOne - MulFixNat(x2,
       FixOne - MulFixNat(x2,
          FixOne - MulFixNat(x2,
             FixOne - MulFixNat(x2,
                FixOne - MulFixNat(x2,
                   FixOne - x2 \div 132) \div 90) \div 56) \div 30) \div 12) \div 2

\* sin x for 0 <= x <= pi/4
SinQ(x) == SinSeries(x, MulFixNat(x, x))

\* cos x for 0 <= x <= pi/4
CosQ(x) == CosSeries(MulFixNat(x, x))

\* sin x on the first quadrant 0 <= x <= pi/2
SinH(x) == IF 2 * x <= HALF_PI8 THEN SinQ(x) ELSE CosQ(HALF_PI8 - x)

\* y in [0, 2 pi) folded into the first quadrant, and the sign of sin y
SinFold(y) ==
    IF y <= HALF_PI8 THEN y
    ELSE IF y <= PI8 THEN PI8 - y
    ELSE IF y <= PI8 + HALF_PI8 THEN y - PI8
    ELSE TWO_PI8 - y

SinSign(y) == IF y <= PI8 THEN 1 ELSE -1

\* sin y for y in [0, 2 pi)
SinTurn(y) == SinSign(y) * SinH(SinFold(y))

\* sin x for any fixed-point x
SinFix(x) == SinTurn(x % TWO_PI8)

\* cos x for any fixed-point x
CosFix(x) == SinTurn((x + HALF_PI8) % TWO_PI8)

RECURSIVE ShiftMod(_, _, _)
\* (r * 10^k) mod d
ShiftMod(r, d, k) == IF k = 0 THEN r ELSE ShiftMod((r * 10) % d, d, k - 1)

\* C fmod(v, w) for w > 0: the exact remainder, with the sign of v
FFmod(v, w) ==
    IF v.m = 0 \/ v.x < w.x \/ (v.x = w.x /\ Abs(v.m) < w.m) THEN v
    ELSE Norm(Sgn(v.m) * ShiftMod(Abs(v.m) % w.m, w.m, v.x - w.x), w.x)

\* the argument of sin and cos as a fixed-point angle
TrigArg(f) ==
    ToFix(IF f.x <= -7 THEN f ELSE FFmod(f, [m |-> 62831853, x |-> -7]))

\* math.sin
FSin(f) == FromFix(SinFix(TrigArg(f)))

\* math.cos
FCos(f) == FromFix(CosFix(TrigArg(f)))

\* the Taylor series of atan w in Horner form, w2 = w * w
AtanSeries(w, w2) ==
    MulFix(w, FixOne - MulFix(w2,
       FixOne \div 3 - MulFix(w2,
          FixOne \div 5 - MulFix(w2,
             FixOne \div 7 - MulFix(w2,
                FixOne \div 9 - MulFix(w2,
                   FixOne \div 11 - MulFix(w2, FixOne \div 13)))))))

\* atan w for |w| <= 0.27
AtanT(w) == AtanSeries(w, MulFix(w, w))

Sqrt3 == [m |-> 17320508, x |-> -7]

\* (q * sqrt3 - 1) / (sqrt3 + q): atan q = pi/6 + atan of it
AtanShift(q) ==
    FDiv(FSub(FMul(q, Sqrt3), [m |-> 10000000, x |-> -7]), FAdd(Sqrt3, q))

\* atan q at scale FixOne for a float 0 <= q <= 1, shifted above 2 - sqrt3
AtanFold(q, above) ==
    (IF above THEN SIXTH_PI8 ELSE 0)
    + AtanT(ToFix(IF above THEN AtanShift(q) ELSE q))

AtanUnit(q) == AtanFold(q, FLt([m |-> 26794919, x |-> -8], q))

\* the angle of (x, y) from the angle phi of (|x|, |y|)
Atan2Place(y, x, phi) ==
    FromFix(Sgn(IF y.m < 0 THEN -1 ELSE 1)
            * (IF x.m >= 0 THEN phi ELSE PI8 - phi))

\* the angle of (b, a) for a, b >= 0, a <= b when le
Atan2Ratio(a, b, le) ==
    IF a.m = 0 THEN 0
    ELSE IF b.m = 0 THEN HALF_PI8
    ELSE IF le THEN AtanUnit(FDiv(a, b))
    ELSE HALF_PI8 - AtanUnit(FDiv(b, a))

\* math.atan2(y, x)
FAtan2(y, x) == Atan2Place(y, x, Atan2Ratio(FAbs(y), FAbs(x), FLe(FAbs(y), FAbs(x))))

RECURSIVE ISqrt(_, _, _)
\* the integer square root of n, searched between lo and hi
ISqrt(n, lo, hi) ==
    IF lo >= hi THEN lo
    ELSE IF ((lo + hi + 1) \div 2) * ((lo + hi + 1) \div 2) <= n
         THEN ISqrt(n, (lo + hi + 1) \div 2, hi)
         ELSE ISqrt(n, lo, (lo + hi + 1) \div 2 - 1)

\* a first root of f, from the integer root of its mantissa
SqrtSeed(f) ==
    IF f.x % 2 = 1 THEN Norm(ISqrt(f.m * 10, 1, 40000), (f.x - 1) \div 2)
    ELSE Norm(ISqrt(f.m, 1, 40000), f.x \div 2)

\* one Newton step toward the root of f from y
SqrtStep(f, y) == FMul([m |-> 50000000, x |-> -8], FAdd(y, FDiv(f, y)))

\* math.sqrt(f) for f >= 0
FSqrt(f) == IF f.m = 0 THEN f ELSE SqrtStep(f, SqrtStep(f, SqrtSeed(f)))

-----------------------------------------------------------------------------
(* The program's constants *)

Zero == [m |-> 0, x |-> 0]

One == [m |-> 10000000, x |-> -7]

Two == [m |-> 20000000, x |-> -7]

\* math.pi
PiF == [m |-> 31415926, x |-> -7]

\* math.radians(deg)
FRadians(deg) == FMul(deg, FDiv(PiF, FromInt(180)))

\* (name, semi-major axis, eccentricity, period)
PLANETS ==
    << [name |-> "Mercury", a |-> F(387, -3),  e |-> F(2056, -4), T |-> F(8797, -2)],
       [name |-> "Venus",   a |-> F(723, -3),  e |-> F(67, -4),   T |-> F(2247, -1)],
       [name |-> "Earth",   a |-> F(1, 0),     e |-> F(167, -4),  T |-> F(3652, -1)],
       [name |-> "Mars",    a |-> F(1524, -3), e |-> F(934, -4),  T |-> F(687, 0)] >>

\* (name, parent planet index, semi-major axis, eccentricity, period)
MOONS ==
    << [name |-> "Moon", parent_idx |-> 2,
        a |-> F(257, -5), e |-> F(549, -4), T |-> F(273, -1)] >>

omega_deg == F(29, 0)

\* solve_kepler's defaults
DefaultTol == F(1, -6)

max_iter == 100

WIDTH == 1200

HEIGHT == 1000

CENTER == <<WIDTH \div 2, HEIGHT \div 2 + 100>>

\* pixels per AU
SCALE == F(350, 0)

\* the longest trail kept per planet
TrailMax == 800

VARIABLES
    tau,               \* time of perihelion
    omega,             \* argument of periapsis, radians
    t,                 \* simulation time, days
    dt,                \* simulation time step, days per frame
    cam_x, cam_y,      \* camera offset, AU
    zoom,              \* camera zoom
    trails,            \* per planet, the display coordinates drawn so far
    running,           \* the while loop's flag
    pc,                \* where the frame loop stands
    i,                 \* the planet loop's index (from 1)
    j,                 \* the moon loop's index (from 1)
    pos,               \* the last result of get_position (x_au, y_au)
    planet_positions,  \* this frame's planets
    moon_positions,    \* this frame's moons (m_x_au, m_y_au, m_x_px, m_y_px)
    keysLeft,          \* key presses the run may still receive
    framesLeft,        \* frames the run may still draw
    hist,              \* history: per planet, every display coordinate produced
    probes,            \* history: the calls a caller makes between frames
    kep,               \* a call of solve_kepler, pass by pass
    call,              \* a body's elements and the calls made on them
    sweep              \* a call of draw_orbit, sample by sample

\* the callers' records, which the frame loop never touches
harness == <<probes, kep, call, sweep>>

-----------------------------------------------------------------------------
(* solve_kepler and get_position *)

\* a truncating remainder, as math.fmod gives
TruncMod(v, w) == FFmod(v, w)

\* Python's float %: fmod, then the divisor added when the signs differ
PyMod(v, w) ==
    LET mod == FFmod(v, w)
    IN  IF mod.m # 0 /\ ((w.m < 0) # (mod.m < 0)) THEN FAdd(mod, w) ELSE mod

\* E = M if e < 0.8 else math.pi
KeplerSeed(M, e) == IF FLt(e, F(8, -1)) THEN M ELSE PiF

\* delta = E - e * math.sin(E) - M
KeplerDelta(E, M, e) == FSub(FSub(E, FMul(e, FSin(E))), M)

\* 1 - e * math.cos(E)
KeplerDivisor(E, e) == FSub(One, FMul(e, FCos(E)))

\* abs(delta) < tol
Converged(delta, tol) == FLt(FAbs(delta), tol)

\* the loop body, given delta and the divisor: whether it breaks, raises
\* or updates E, and the new E
KeplerUpdate(E, delta, div, tol) ==
    IF Converged(delta, tol) THEN [outcome |-> "break", E |-> E]
    ELSE IF div.m = 0 THEN [outcome |-> "ZeroDivisionError", E |-> E]
    ELSE [outcome |-> "update", E |-> FSub(E, FDiv(delta, div))]

\* one pass through the loop body
KeplerPass(E, M, e, tol) ==
    KeplerUpdate(E, KeplerDelta(E, M, e), KeplerDivisor(E, e), tol)

\* the loop without its cap, as while True would run it
LoopUncapped(k) == k >= 0

\* for _ in range(max_iter)
LoopRuns(k) == k < max_iter

RECURSIVE KeplerLoop(_, _, _, _, _)
RECURSIVE KeplerAfter(_, _, _, _, _)
\* the loop from its k-th pass on: the E returned, the passes that updated
\* E, and the exception raised, if any
KeplerLoop(E, M, e, tol, k) ==
    IF ~LoopRuns(k) THEN [raised |-> "none", E |-> E, iters |-> k]
    ELSE KeplerAfter(KeplerPass(E, M, e, tol), M, e, tol, k)

\* the loop after a pass p
KeplerAfter(p, M, e, tol, k) ==
    IF p.outcome = "break" THEN [raised |-> "none", E |-> p.E, iters |-> k]
    ELSE IF p.outcome = "update" THEN KeplerLoop(p.E, M, e, tol, k + 1)
    ELSE [raised |-> p.outcome, E |-> p.E, iters |-> k]

solve_kepler(M, e, tol) == KeplerLoop(KeplerSeed(M, e), M, e, tol, 0)

\* n = 2 * math.pi / T
MeanMotion(T) == FDiv(FMul(Two, PiF), T)

\* M = n * (t - tau); M = M % (2 * math.pi)
MeanAnomaly(n, tt) == PyMod(FMul(n, FSub(tt, tau)), FMul(Two, PiF))

\* 2 * atan2(sqrt(1 + e) * sin(h), sqrt(1 - e) * cos(h)) for h = E / 2
HalfAngle(h, e) ==
    FMul(Two, FAtan2(FMul(FSqrt(FAdd(One, e)), FSin(h)),
                     FMul(FSqrt(FSub(One, e)), FCos(h))))

\* theta = 2 * atan2(sqrt(1 + e) * sin(E / 2), sqrt(1 - e) * cos(E / 2))
TrueAnomaly(E, e) == HalfAngle(FDiv(E, Two), e)

\* r = a * (1 - e * math.cos(E))
Radius(a, e, E) == FMul(a, FSub(One, FMul(e, FCos(E))))

\* the rotation of (x_orbit, y_orbit) by an angle of cosine c and sine s
Turn(x_orbit, y_orbit, c, s) ==
    [x |-> FSub(FMul(x_orbit, c), FMul(y_orbit, s)),
     y |-> FAdd(FMul(x_orbit, s), FMul(y_orbit, c))]

\* polar to Cartesian in the orbit frame, then the rotation by omega
Rotate(r, theta) ==
    Turn(FMul(r, FCos(theta)), FMul(r, FSin(theta)), FCos(omega), FSin(omega))

Raised(what) ==
    [raised |-> what, x |-> Zero, y |-> Zero, M |-> Zero, E |-> Zero,
     theta |-> Zero, r |-> Zero]

\* the result taken relative to the camera, as to_screen takes it
PlacedInView(M, E, theta, r, p) ==
    [raised |-> "none", x |-> FSub(p.x, cam_x), y |-> FSub(p.y, cam_y),
     M |-> M, E |-> E, theta |-> theta, r |-> r]

\* lines 71-77: the record of the call's result and locals
Placed(M, E, theta, r, p) ==
    [raised |-> "none", x |-> p.x, y |-> p.y, M |-> M, E |-> E,
     theta |-> theta, r |-> r]

\* lines 71-77, once theta and r are known
Locate(M, E, theta, r) == Placed(M, E, theta, r, Rotate(r, theta))

\* lines 68-77, once E is solved; math.sqrt raises on a negative argument
Place(a, e, M, sk) ==
    IF sk.raised # "none" THEN [Raised(sk.raised) EXCEPT !.M = M]
    ELSE IF FAdd(One, e).m < 0 \/ FSub(One, e).m < 0
    THEN [Raised("ValueError") EXCEPT !.M = M, !.E = sk.E]
    ELSE Locate(M, sk.E, TrueAnomaly(sk.E, e), Radius(a, e, sk.E))

\* lines 67-77, once M is reduced
Propagate(a, e, M) == Place(a, e, M, solve_kepler(M, e, DefaultTol))

\* get_position(a, e, T, t): the result (x, y), the locals M, E, theta, r,
\* and the exception the call raises, if any
get_position(a, e, T, tt) ==
    IF T.m = 0 THEN Raised("ZeroDivisionError")
    ELSE Propagate(a, e, MeanAnomaly(MeanMotion(T), tt))

-----------------------------------------------------------------------------
(* The frame loop *)

mainVars == <<t, dt, cam_x, cam_y, zoom, trails, running, pc, i, j, pos,
              planet_positions, moon_positions, keysLeft, framesLeft, hist>>

globals == <<tau, omega>>

\* int(d * SCALE * zoom)
Pixels(d) == FInt(FMul(FMul(d, SCALE), zoom))

to_screen(x_au, y_au) ==
    [x_px |-> CENTER[1] + Pixels(FSub(x_au, cam_x)),
     y_px |-> CENTER[2] - Pixels(FSub(y_au, cam_y))]

\* the state after the module's top-level assignments, before the loop
InitMain(keys, frames) ==
    /\ tau = Zero
    /\ omega = FRadians(omega_deg)
    /\ t = Zero
    /\ dt = F(5, -1)
    /\ cam_x = Zero
    /\ cam_y = Zero
    /\ zoom = One
    /\ trails = [k \in 1..Len(PLANETS) |-> << >>]
    /\ running = TRUE
    /\ pc = "events"
    /\ i = 1
    /\ j = 1
    /\ pos = Raised("none")
    /\ planet_positions = << >>
    /\ moon_positions = << >>
    /\ keysLeft = keys
    /\ framesLeft = frames
    /\ hist = [k \in 1..Len(PLANETS) |-> << >>]

\* what a key handler leaves alone besides the variable it assigns
KeyFrame ==
    /\ pc = "events"
    /\ keysLeft > 0
    /\ keysLeft' = keysLeft - 1
    /\ UNCHANGED <<globals, t, trails, running, pc, i, j, pos,
                   planet_positions, moon_positions, framesLeft, hist, harness>>

\* 0.1 / zoom
PanStep == FDiv(F(1, -1), zoom)

\* zoom = max(0.2, zoom * 0.8)
ZoomOut(z) == FMax(F(2, -1), FMul(z, F(8, -1)))

\* zoom = min(5.0, zoom * 1.25)
ZoomIn(z) == FMin(F(5, 0), FMul(z, F(125, -2)))

\* the halving without its floor
SlowDownUnclamped(d) == FMul(d, F(5, -1))

\* dt = max(0.01, dt * 0.5)
SlowDown(d) == FMax(F(1, -2), FMul(d, F(5, -1)))

\* dt = min(10.0, dt * 2)
SpeedUp(d) == FMin(F(10, 0), FMul(d, Two))

KeyW == KeyFrame /\ cam_y' = FAdd(cam_y, PanStep) /\ UNCHANGED <<cam_x, zoom, dt>>

KeyS == KeyFrame /\ cam_y' = FSub(cam_y, PanStep) /\ UNCHANGED <<cam_x, zoom, dt>>

KeyA == KeyFrame /\ cam_x' = FSub(cam_x, PanStep) /\ UNCHANGED <<cam_y, zoom, dt>>

KeyD == KeyFrame /\ cam_x' = FAdd(cam_x, PanStep) /\ UNCHANGED <<cam_y, zoom, dt>>

KeyQ == KeyFrame /\ zoom' = ZoomOut(zoom) /\ UNCHANGED <<cam_x, cam_y, dt>>

KeyE == KeyFrame /\ zoom' = ZoomIn(zoom) /\ UNCHANGED <<cam_x, cam_y, dt>>

KeyZ == KeyFrame /\ dt' = SlowDown(dt) /\ UNCHANGED <<cam_x, cam_y, zoom>>

KeyC == KeyFrame /\ dt' = SpeedUp(dt) /\ UNCHANGED <<cam_x, cam_y, zoom>>

\* pygame.QUIT: the frame in progress is still drawn
Quit ==
    /\ pc = "events"
    /\ running
    /\ running' = FALSE
    /\ UNCHANGED <<globals, t, dt, cam_x, cam_y, zoom, trails, pc, i, j, pos,
                   planet_positions, moon_positions, keysLeft, framesLeft,
                   hist, harness>>

\* t += dt
Advance(now, step) == FAdd(now, step)

\* the list kept from the frame before
KeptPlanetPositions == planet_positions

\* planet_positions = []
NewPlanetPositions == << >>

\* the events are handled: t += dt, the background, the sun and the texts
\* are drawn, and the planet loop starts
Tick ==
    /\ pc = "events"
    /\ framesLeft > 0
    /\ framesLeft' = framesLeft - 1
    /\ t' = Advance(t, dt)
    /\ planet_positions' = NewPlanetPositions
    /\ moon_positions' = << >>
    /\ i' = 1
    /\ pc' = "planet_call"
    /\ UNCHANGED <<globals, dt, cam_x, cam_y, zoom, trails, running, j, pos,
                   keysLeft, hist, harness>>

\* what a call of get_position leaves alone: it assigns only its locals
CallFrame ==
    UNCHANGED <<globals, t, dt, cam_x, cam_y, zoom, trails, running, i, j,
                planet_positions, moon_positions, keysLeft, framesLeft, hist>>

\* draw_orbit(a, e, color) paints; x_au, y_au = get_position(a, e, T, t)
PlanetCall ==
    /\ pc = "planet_call"
    /\ pos' = get_position(PLANETS[i].a, PLANETS[i].e, PLANETS[i].T, t)
    /\ pc' = "planet_draw"
    /\ CallFrame
    /\ UNCHANGED harness

\* the append with pop() for pop(0): the newest point is dropped
TrailPushDropNewest(trail, p) ==
    IF Len(trail) + 1 > TrailMax THEN trail ELSE Append(trail, p)

\* trails[i].append(p); if len(trails[i]) > 800: trails[i].pop(0)
TrailPush(trail, p) ==
    LET grown == Append(trail, p)
    IN  IF Len(grown) > TrailMax THEN Tail(grown) ELSE grown

\* lines 149-152 for the body at (x_au, y_au), drawn at px
PlanetEntry(x_au, y_au, px) ==
    /\ planet_positions' =
           Append(planet_positions,
                  [x_au |-> x_au, y_au |-> y_au, x_px |-> px.x_px,
                   y_px |-> px.y_px, name |-> PLANETS[i].name])
    /\ trails' = [trails EXCEPT ![i] = TrailPush(@, <<px.x_px, px.y_px>>)]
    /\ hist' = [hist EXCEPT ![i] = Append(@, <<px.x_px, px.y_px>>)]

\* the rest of the planet loop's body: to_screen, planet_positions, trail
PlanetDraw ==
    /\ pc = "planet_draw"
    /\ PlanetEntry(pos.x, pos.y, to_screen(pos.x, pos.y))
    /\ IF i < Len(PLANETS)
       THEN i' = i + 1 /\ pc' = "planet_call" /\ j' = j
       ELSE i' = i /\ j' = 1
            /\ pc' = IF Len(MOONS) > 0 THEN "moon_call" ELSE "flip"
    /\ UNCHANGED <<globals, t, dt, cam_x, cam_y, zoom, running, pos,
                   moon_positions, keysLeft, framesLeft, harness>>

\* m_x_rel, m_y_rel = get_position(m_a, m_e, m_T, t)
MoonCall ==
    /\ pc = "moon_call"
    /\ MOONS[j].parent_idx + 1 <= Len(planet_positions)
    /\ pos' = get_position(MOONS[j].a, MOONS[j].e, MOONS[j].T, t)
    /\ pc' = "moon_draw"
    /\ CallFrame
    /\ UNCHANGED harness

\* the parent's entry of planet_positions, looked up by parent_idx
ParentOf(m) == planet_positions[m.parent_idx + 1]

\* lines 167-170 for the moon at (m_x_au, m_y_au), drawn at px
MoonDrawn(m_x_au, m_y_au, px) ==
    moon_positions' =
        Append(moon_positions,
               [x_au |-> m_x_au, y_au |-> m_y_au, x_px |-> px.x_px,
                y_px |-> px.y_px, name |-> MOONS[j].name])

MoonEntry(m_x_au, m_y_au) ==
    MoonDrawn(m_x_au, m_y_au, to_screen(m_x_au, m_y_au))

\* m_x_au = parent_x_au + m_x_rel; m_y_au = parent_y_au + m_y_rel
MoonDraw ==
    /\ pc = "moon_draw"
    /\ MoonEntry(FAdd(ParentOf(MOONS[j]).x_au, pos.x),
                 FAdd(ParentOf(MOONS[j]).y_au, pos.y))
    /\ IF j < Len(MOONS)
       THEN j' = j + 1 /\ pc' = "moon_call"
       ELSE j' = j /\ pc' = "flip"
    /\ UNCHANGED <<globals, t, dt, cam_x, cam_y, zoom, trails, running, i,
                   pos, planet_positions, keysLeft, framesLeft, hist, harness>>

\* pygame.display.flip(); clock.tick(60); then the while condition
Flip ==
    /\ pc = "flip"
    /\ pc' = IF running THEN "events" ELSE "done"
    /\ UNCHANGED <<globals, t, dt, cam_x, cam_y, zoom, trails, running, i, j,
                   pos, planet_positions, moon_positions, keysLeft,
                   framesLeft, hist, harness>>

FrameStep == Tick \/ PlanetCall \/ PlanetDraw \/ MoonCall \/ MoonDraw \/ Flip

\* bounds of the runs explored
MaxKeys == 2

MaxFrames == 2

\* no call of the callers in progress
Idle == [pc |-> "idle"]

Init ==
    /\ InitMain(MaxKeys, MaxFrames)
    /\ probes = << >>
    /\ kep = Idle
    /\ call = Idle
    /\ sweep = Idle

Next ==
    \/ KeyW \/ KeyS \/ KeyA \/ KeyD \/ KeyQ \/ KeyE \/ KeyZ \/ KeyC
    \/ Quit
    \/ FrameStep

vars == <<globals, mainVars, harness>>

Spec == Init /\ [][Next]_vars

-----------------------------------------------------------------------------
(* The frame loop under chosen inputs *)

\* frames drawn in a run with no key pressed
TrailFrames == 6

\* t after n frames of step days each
TimeAfter(n, step) == FMul(FromInt(n), step)

\* the entry a body at (x_au, y_au), drawn at px, leaves in its list
EntryOf(name, x_au, y_au, px) ==
    [x_au |-> x_au, y_au |-> y_au, x_px |-> px.x_px, y_px |-> px.y_px,
     name |-> name]

\* the entry of planet_positions for the planet at g
PlanetAt(name, g) == EntryOf(name, g.x, g.y, to_screen(g.x, g.y))

\* the entry drawn for the moon at g from its parent's entry
MoonAt(name, g, parent) ==
    EntryOf(name, FAdd(parent.x_au, g.x), FAdd(parent.y_au, g.y),
            to_screen(FAdd(parent.x_au, g.x), FAdd(parent.y_au, g.y)))

\* the point a planet leaves on its trail in the frame at time tt
TrailPoint(e) == <<e.x_px, e.y_px>>

\* the points the positions in the set gs leave
ShownOf(name, gs) == {TrailPoint(PlanetAt(name, g)) : g \in gs}

Shown(body, tt) ==
    CHOOSE p \in ShownOf(body.name,
                         {get_position(body.a, body.e, body.T, tt)}) : TRUE

RECURSIVE TrailBetween(_, _, _, _)
\* the points a planet leaves in the frames lo..hi, step days apart
TrailBetween(body, step, lo, hi) ==
    IF lo > hi THEN << >>
    ELSE IF lo = hi THEN <<Shown(body, TimeAfter(lo, step))>>
    ELSE TrailBetween(body, step, lo, (lo + hi) \div 2)
         \o TrailBetween(body, step, (lo + hi) \div 2 + 1, hi)

RECURSIVE TrailsAfter(_, _, _)
\* the trails of the first k planets after n frames
TrailsAfter(k, step, n) ==
    IF k = 0 THEN << >>
    ELSE Append(TrailsAfter(k - 1, step, n), TrailBetween(PLANETS[k], step, 1, n))

RECURSIVE PlanetsAt(_, _)
\* planet_positions once the first k planets are drawn at time tt
PlanetsAt(k, tt) ==
    IF k = 0 THEN << >>
    ELSE Append(PlanetsAt(k - 1, tt),
                PlanetAt(PLANETS[k].name,
                         get_position(PLANETS[k].a, PLANETS[k].e, PLANETS[k].T, tt)))

RECURSIVE MoonsAt(_, _, _)
\* the moons drawn once the first k are, at time tt around planets
MoonsAt(k, tt, planets) ==
    IF k = 0 THEN << >>
    ELSE Append(MoonsAt(k - 1, tt, planets),
                MoonAt(MOONS[k].name,
                       get_position(MOONS[k].a, MOONS[k].e, MOONS[k].T, tt),
                       planets[MOONS[k].parent_idx + 1]))

\* the top of the loop after n >= 1 frames drawn with no key pressed, with
\* frames more to draw
InitAfter(n, frames) ==
    /\ tau = Zero
    /\ omega = FRadians(omega_deg)
    /\ dt = F(5, -1)
    /\ t = TimeAfter(n, dt)
    /\ cam_x = Zero
    /\ cam_y = Zero
    /\ zoom = One
    /\ trails = TrailsAfter(Len(PLANETS), dt, n)
    /\ hist = trails
    /\ running = TRUE
    /\ pc = "events"
    /\ i = Len(PLANETS)
    /\ j = Len(MOONS)
    /\ pos = get_position(MOONS[j].a, MOONS[j].e, MOONS[j].T, t)
    /\ planet_positions = PlanetsAt(Len(PLANETS), t)
    /\ moon_positions = MoonsAt(Len(MOONS), t, planet_positions)
    /\ keysLeft = 0
    /\ framesLeft = frames

\* a run from the start, or one taken up when the trails are nearly full
InitTrail ==
    /\ InitMain(0, TrailFrames) \/ InitAfter(TrailMax - 2, TrailFrames)
    /\ probes = << >>
    /\ kep = Idle
    /\ call = Idle
    /\ sweep = Idle

SpecTrail == InitTrail /\ [][FrameStep]_vars

\* Z and C presses, enough to reach both ends of the range of dt
SpeedKeys == 7

SpeedFrames == 2

InitSpeed ==
    /\ InitMain(SpeedKeys, SpeedFrames)
    /\ probes = << >>
    /\ kep = Idle
    /\ call = Idle
    /\ sweep = Idle

SpecSpeed == InitSpeed /\ [][KeyZ \/ KeyC \/ FrameStep]_vars

\* the calls another caller of get_position makes between frames
ProbeKeys == 1

ProbeFrames == 1

MaxProbes == 2

ProbeCalls ==
    {[a |-> PLANETS[1].a, e |-> PLANETS[1].e, T |-> PLANETS[1].T,
      t |-> F(105, -1)],
     [a |-> MOONS[1].a, e |-> MOONS[1].e, T |-> MOONS[1].T, t |-> Zero]}

InitProbe ==
    /\ InitMain(ProbeKeys, ProbeFrames)
    /\ probes = << >>
    /\ kep = Idle
    /\ call = Idle
    /\ sweep = Idle

\* the record of a call with the arguments c
Probed(c) == [args |-> c, result |-> get_position(c.a, c.e, c.T, c.t)]

\* x, y = get_position(a, e, T, t), called between two frames
Probe ==
    /\ pc = "events"
    /\ Len(probes) < MaxProbes
    /\ \E c \in ProbeCalls : probes' = Append(probes, Probed(c))
    /\ UNCHANGED <<globals, mainVars, kep, call, sweep>>

SpecProbe == InitProbe /\ [][Next \/ Probe]_vars

-----------------------------------------------------------------------------
(* solve_kepler, pass by pass, the frame loop at rest *)

\* the arguments the calls of solve_kepler are made with
KeplerMs == {Zero, F(1, -3), One, F(3, 0), F(62831852, -7), F(-5, 0), F(1, 10)}

KeplerEs == {Zero, F(2056, -4), F(5, -1), F(8, -1), F(99, -2), F(9999, -4)}

KeplerTols == {DefaultTol, Zero}

InitKepler ==
    /\ InitMain(0, 0)
    /\ probes = << >>
    /\ call = Idle
    /\ sweep = Idle
    /\ kep \in {[pc |-> "entry", M |-> M, e |-> e, tol |-> tol, E |-> Zero,
                 k |-> 0, raised |-> "none"] :
                   M \in KeplerMs, e \in KeplerEs, tol \in KeplerTols}

\* E = M if e < 0.8 else math.pi
KeplerEnter ==
    /\ kep.pc = "entry"
    /\ kep' = [kep EXCEPT !.pc = "loop", !.E = KeplerSeed(kep.M, kep.e)]
    /\ UNCHANGED <<globals, mainVars, probes, call, sweep>>

\* kep after a pass p of the loop body
KeplerMove(p) ==
    IF p.outcome = "break" THEN [kep EXCEPT !.pc = "return"]
    ELSE IF p.outcome = "update" THEN [kep EXCEPT !.E = p.E, !.k = kep.k + 1]
    ELSE [kep EXCEPT !.pc = "raised", !.raised = p.outcome]

\* one pass of the for loop
KeplerIterate ==
    /\ kep.pc = "loop"
    /\ LoopRuns(kep.k)
    /\ kep' = KeplerMove(KeplerPass(kep.E, kep.M, kep.e, kep.tol))
    /\ UNCHANGED <<globals, mainVars, probes, call, sweep>>

\* range(max_iter) is exhausted
KeplerExhaust ==
    /\ kep.pc = "loop"
    /\ ~LoopRuns(kep.k)
    /\ kep' = [kep EXCEPT !.pc = "return"]
    /\ UNCHANGED <<globals, mainVars, probes, call, sweep>>

\* return E
KeplerReturn ==
    /\ kep.pc = "return"
    /\ kep' = [kep EXCEPT !.pc = "returned"]
    /\ UNCHANGED <<globals, mainVars, probes, call, sweep>>

SpecKepler ==
    InitKepler
    /\ [][KeplerEnter \/ KeplerIterate \/ KeplerExhaust \/ KeplerReturn]_vars

-----------------------------------------------------------------------------
(* get_position on a body's elements, as a caller of the function uses it *)

\* the elements and times the calls are made with
ElementAs == {One, F(387, -3), Zero, F(-1, 0)}

ElementEs == {Zero, F(2056, -4), F(8, -1), F(9999, -4), One, F(15, -1)}

ElementTs == {One, F(8797, -2), Zero, F(-1, 0)}

CallTimes == {Zero, F(-1, -20), F(-5, 0), F(105, -1), F(1, 3), F(5, 7)}

InitPosition ==
    /\ InitMain(0, 0)
    /\ probes = << >>
    /\ kep = Idle
    /\ sweep = Idle
    /\ call \in {[pc |-> "config", a |-> a, e |-> e, T |-> T, t |-> tt,
                  first |-> Raised("none"), second |-> Raised("none")] :
                    a \in ElementAs, e \in ElementEs, T \in ElementTs,
                    tt \in CallTimes}

\* the elements are put in a tuple like the rows of PLANETS and MOONS:
\* nothing inspects them
Construct ==
    /\ call.pc = "config"
    /\ call' = [call EXCEPT !.pc = "built"]
    /\ UNCHANGED <<globals, mainVars, probes, kep, sweep>>

\* call after get_position returned or raised res
Called(res) ==
    [call EXCEPT !.first = res,
                 !.pc = IF res.raised = "none" THEN "called" ELSE "crashed"]

\* get_position(a, e, T, t)
Evaluate ==
    /\ call.pc = "built"
    /\ call' = Called(get_position(call.a, call.e, call.T, call.t))
    /\ UNCHANGED <<globals, mainVars, probes, kep, sweep>>

\* get_position(a, e, T, t + T), one period later
EvaluateLater ==
    /\ call.pc = "called"
    /\ call' = [call EXCEPT !.pc = "again",
                   !.second = get_position(call.a, call.e, call.T,
                                           FAdd(call.t, call.T))]
    /\ UNCHANGED <<globals, mainVars, probes, kep, sweep>>

SpecPosition == InitPosition /\ [][Construct \/ Evaluate \/ EvaluateLater]_vars

-----------------------------------------------------------------------------
(* draw_orbit, sample by sample *)

\* range(0, 360, 2)
SweepStart == 0

SweepStop == 360

SweepStep == 2

\* the conic with the sign of the cosine term flipped
OrbitRadiusFlipped(a, e, theta) ==
    FDiv(FMul(a, FSub(One, FMul(e, e))), FSub(One, FMul(e, FCos(theta))))

\* r = a * (1 - e**2) / (1 + e * math.cos(theta))
OrbitRadius(a, e, theta) ==
    FDiv(FMul(a, FSub(One, FMul(e, e))), FAdd(One, FMul(e, FCos(theta))))

\* the entry of points for the sample at deg, with what it was computed from
SamplePoint(deg, r, p) ==
    [deg |-> deg, r |-> r, x |-> p.x, y |-> p.y, px |-> to_screen(p.x, p.y)]

\* the loop body for theta at radius r
SampleAt(deg, theta, r) == SamplePoint(deg, r, Rotate(r, theta))

\* the loop body for theta = math.radians(deg)
Sample(a, e, deg, theta) == SampleAt(deg, theta, OrbitRadius(a, e, theta))

\* the orbits drawn: those of PLANETS
InitOrbit ==
    /\ InitMain(0, 0)
    /\ probes = << >>
    /\ kep = Idle
    /\ call = Idle
    /\ sweep \in {[pc |-> "loop", a |-> PLANETS[k].a, e |-> PLANETS[k].e,
                   deg |-> SweepStart, points |-> << >>, closed |-> FALSE] :
                     k \in 1..Len(PLANETS)}

\* one pass of for deg in range(0, 360, 2)
SweepSample ==
    /\ sweep.pc = "loop"
    /\ sweep.deg < SweepStop
    /\ sweep' = [sweep EXCEPT
                   !.points = Append(@, Sample(sweep.a, sweep.e, sweep.deg,
                                               FRadians(FromInt(sweep.deg)))),
                   !.deg = @ + SweepStep]
    /\ UNCHANGED <<globals, mainVars, probes, kep, call>>

\* pygame.draw.aalines(screen, color, True, points, 1): closed is True
SweepDraw ==
    /\ sweep.pc = "loop"
    /\ sweep.deg >= SweepStop
    /\ sweep' = [sweep EXCEPT !.pc = "drawn", !.closed = TRUE]
    /\ UNCHANGED <<globals, mainVars, probes, kep, call>>

SpecOrbit == InitOrbit /\ [][SweepSample \/ SweepDraw]_vars

-----------------------------------------------------------------------------
(* Properties of solve_kepler, get_position and draw_orbit *)

\* |x - y| <= tol
Within(x, y, tol) == FLe(FAbs(FSub(x, y)), tol)

\* 2 * math.pi
TwoPi == FMul(Two, PiF)

\* a > 0, 0 <= e < 1, T > 0
ValidElements(c) == c.a.m > 0 /\ c.e.m >= 0 /\ FLt(c.e, One) /\ c.T.m > 0

\* C1: for every M and 0 <= e < 1 solve_kepler makes at most max_iter = 100
\* passes of its loop, never raises, never divides by zero (1 - e*cos(E) is
\* not zero at any E it visits), and returns E also when the cap is reached
\* without convergence.
C1_SolveBounded ==
    /\ kep.k <= max_iter
    /\ kep.pc # "raised"
    /\ kep.raised = "none"
    /\ kep.pc = "loop" => KeplerDivisor(kep.E, kep.e).m # 0
    /\ kep.pc \in {"return", "returned"} =>
          \/ kep.k = max_iter
          \/ Converged(KeplerDelta(kep.E, kep.M, kep.e), kep.tol)

\* the cap is reached without convergence and E is returned
C1_CapReached ==
    /\ kep.pc = "returned"
    /\ kep.k = max_iter
    /\ ~Converged(KeplerDelta(kep.E, kep.M, kep.e), kep.tol)

\* get_position went as far as reducing M, for a period T > 0
Reduced == call.pc \in {"called", "again", "crashed"} /\ call.T.m > 0

\* C2 (as amended): for every T > 0 and every t, also t < tau and t many
\* periods away, the mean anomaly passed to solve_kepler is never negative
\* and lies in the closed interval [0, 2*pi]: a tiny negative n*(t - tau)
\* is reduced to 2*pi itself.
C2_MeanAnomalyWrapped ==
    Reduced => call.first.M.m >= 0 /\ FLe(call.first.M, TwoPi)

\* t < tau, and the reduced mean anomaly is 2*pi
C2_WrappedToTwoPi ==
    /\ call.pc = "called"
    /\ call.T.m > 0
    /\ FLt(call.t, tau)
    /\ call.first.M = TwoPi

\* C2 as claimed: the reduced mean anomaly lies in [0, 2*pi) and never
\* reaches 2*pi.
C2_MeanAnomalyHalfOpen ==
    Reduced => call.first.M.m >= 0 /\ FLt(call.first.M, TwoPi)

\* C3 as claimed: get_position is never evaluated on elements with e >= 1,
\* a <= 0 or T <= 0, because their construction rejects them.
C3_InvalidRejected ==
    call.pc \in {"called", "crashed", "again"} => ValidElements(call)

\* the tolerance of the comparisons of positions, relative to a length
PositionTol(len) == FMul(F(1, -3), FAbs(len))

\* C5 as claimed: for valid elements and every t, the positions at t and at
\* t + T agree within tolerance.
C5_Periodic ==
    call.pc = "again" /\ ValidElements(call) /\ call.second.raised = "none" =>
        /\ Within(call.first.x, call.second.x, PositionTol(call.a))
        /\ Within(call.first.y, call.second.y, PositionTol(call.a))

\* the periapsis distance a * (1 - e)
Periapsis(a, e) == FMul(a, FSub(One, e))

\* the apoapsis distance a * (1 + e)
Apoapsis(a, e) == FMul(a, FAdd(One, e))

\* C6 as claimed: at t = tau, for every valid e < 1, the solved E gives
\* theta = 0 and r = a * (1 - e).
C6_PeriapsisAtTau ==
    call.pc \in {"called", "again"} /\ ValidElements(call) /\ call.t = tau =>
        /\ Within(call.first.theta, Zero, F(1, -3))
        /\ Within(call.first.r, Periapsis(call.a, call.e),
                  PositionTol(Periapsis(call.a, call.e)))

\* the samples' radii lie between a*(1-e), taken at 0 degrees, and a*(1+e),
\* taken at 180 degrees
RadiiSpan(points, a, e) ==
    /\ \A k \in 1..Len(points) :
          /\ FLe(FSub(Periapsis(a, e), F(1, -6)), points[k].r)
          /\ FLe(points[k].r, FAdd(Apoapsis(a, e), F(1, -6)))
    /\ \E k \in 1..Len(points) :
          points[k].deg = 0 /\ Within(points[k].r, Periapsis(a, e), F(1, -6))
    /\ \E k \in 1..Len(points) :
          points[k].deg = 180 /\ Within(points[k].r, Apoapsis(a, e), F(1, -6))

\* the points p and q coincide within tolerance
Coincide(p, q, a) ==
    Within(p.x, q.x, PositionTol(a)) /\ Within(p.y, q.y, PositionTol(a))

\* C9 (as amended): draw_orbit samples 0, 2, ..., 358 degrees and draws the
\* samples as a closed polygon by the closed flag of aalines; the first and
\* the last sample are one step apart and do not coincide; the largest
\* radius is a*(1+e) and the smallest a*(1-e), at the samples 180 and 0.
C9_OrbitClosedByFlag ==
    sweep.pc = "drawn" =>
        /\ sweep.closed
        /\ Len(sweep.points) = 180
        /\ sweep.points[1].deg = 0
        /\ sweep.points[Len(sweep.points)].deg = 358
        /\ ~Coincide(sweep.points[1], sweep.points[Len(sweep.points)], sweep.a)
        /\ RadiiSpan(sweep.points, sweep.a, sweep.e)

\* an eccentric orbit is sampled and drawn
C9_OrbitDrawn ==
    /\ sweep.pc = "drawn"
    /\ Len(sweep.points) = 180
    /\ FLt(F(2, -1), sweep.e)

\* C9 as claimed: the first and the last sampled point coincide within
\* tolerance, and the radii span a*(1-e) to a*(1+e).
C9_FirstIsLast ==
    sweep.pc = "drawn" =>
        /\ Coincide(sweep.points[1], sweep.points[Len(sweep.points)], sweep.a)
        /\ RadiiSpan(sweep.points, sweep.a, sweep.e)

-----------------------------------------------------------------------------
(* Properties of the frame loop *)

\* a step that calls get_position
CallStep == PlanetCall \/ MoonCall \/ Probe

\* C4: a call of get_position leaves t, dt, tau, omega, cam_x, cam_y, zoom
\* and trails unchanged, and two calls with equal arguments return equal
\* results whatever key presses and frames happen between them.
C4_PositionPure ==
    /\ [][CallStep => UNCHANGED <<t, dt, tau, omega, cam_x, cam_y, zoom,
                                  trails>>]_vars
    /\ [](\A p \in 1..Len(probes) : \A q \in 1..Len(probes) :
             probes[p].args = probes[q].args =>
                 probes[p].result = probes[q].result)

\* two calls with equal arguments, the camera moved and a frame drawn
\* between them
C4_CalledTwice ==
    /\ Len(probes) = 2
    /\ probes[1].args = probes[2].args
    /\ probes[1].result.raised = "none"
    /\ cam_x # Zero
    /\ pc = "done" \/ framesLeft = 0

\* the position get_position gives body at the time t of this frame
Here(body) == get_position(body.a, body.e, body.T, t)

\* C7: in every frame each moon drawn is at its parent planet's position of
\* that frame, computed at the same t, plus the moon's own get_position at
\* that t; when the moon loop runs, the parent's entry of planet_positions
\* is there, computed in this frame.
C7_MoonOnParent ==
    /\ pc \in {"moon_call", "moon_draw"} =>
          /\ Len(planet_positions) = Len(PLANETS)
          /\ \A k \in 1..Len(PLANETS) :
                /\ planet_positions[k].name = PLANETS[k].name
                /\ planet_positions[k].x_au = Here(PLANETS[k]).x
                /\ planet_positions[k].y_au = Here(PLANETS[k]).y
    /\ \A k \in 1..Len(moon_positions) :
          /\ moon_positions[k].x_au =
                FAdd(Here(PLANETS[MOONS[k].parent_idx + 1]).x, Here(MOONS[k]).x)
          /\ moon_positions[k].y_au =
                FAdd(Here(PLANETS[MOONS[k].parent_idx + 1]).y, Here(MOONS[k]).y)

\* the moon is drawn in the second frame
C7_MoonDrawn ==
    /\ framesLeft = 0
    /\ pc = "flip"
    /\ Len(moon_positions) = Len(MOONS)
    /\ moon_positions[1].name = "Moon"

\* the last n elements of the sequence h
LastOf(h, n) == SubSeq(h, Len(h) - n + 1, Len(h))

\* C8: at every frame each planet's trail holds at most 800 display
\* coordinates, the most recent ones produced, in the order produced: a
\* point beyond 800 evicts exactly the oldest.
C8_TrailRecent ==
    \A k \in 1..Len(PLANETS) :
        /\ Len(trails[k]) <= TrailMax
        /\ trails[k] = LastOf(hist[k], IF Len(hist[k]) < TrailMax
                                       THEN Len(hist[k]) ELSE TrailMax)

\* a trail is full and its oldest point has been evicted
C8_Evicted ==
    /\ Len(hist[1]) > TrailMax
    /\ Len(trails[1]) = TrailMax
    /\ trails[1][TrailMax] = hist[1][Len(hist[1])]

\* C10: under any sequence of Z and C presses dt stays within [0.01, 10.0],
\* and every frame increases t: t is never decreased or reset.
C10_TimeAdvances ==
    /\ [](FLe(F(1, -2), dt) /\ FLe(dt, F(10, 0)))
    /\ [][Tick => FLt(t, t')]_vars
    /\ [][FLe(t, t')]_vars

\* dt was driven to its floor and two frames were drawn
C10_SlowestFrames ==
    /\ dt = F(1, -2)
    /\ framesLeft = 0
    /\ keysLeft = 0
    /\ pc = "flip"

=============================================================================
